---- MODULE Spec2Model ----
(***************************************************************************)
(* Model of the HelloTriangleApplication snapshots                         *)
(* (DrawingATriangle_Setup, _Presentation, _Drawing).                      *)
(*                                                                         *)
(* The decision procedures (findQueueFamilies, isDeviceSuitable, the three *)
(* swapchain choosers, the image count) are operators computed the way the *)
(* code computes them; the steps of run() are actions over the             *)
(* application's members and a log of the API's create/destroy calls.      *)
(***************************************************************************)
EXTENDS Integers, Sequences, FiniteSets, TLC

VARIABLES
    snapshot,               \* which of the three programs runs
    enableValidationLayers, \* the NDEBUG compile-time switch
    availableLayers,        \* vkEnumerateInstanceLayerProperties
    availableExtensions,    \* vkEnumerateInstanceExtensionProperties
    devices,                \* vkEnumeratePhysicalDevices, with each device's capabilities
    framebufferSize,        \* glfwGetFramebufferSize
    pc,                     \* the statement run() executes next
    windowShouldClose,      \* the window's close flag (glfwWindowShouldClose)
    physicalDevice,         \* handle <<"physicalDevice", k>> of devices[k], or VK_NULL_HANDLE
    graphicsQueue,          \* <<"queue", f>>: queue 0 of family f
    presentationQueue,
    swapChainCreateInfo,    \* the VkSwapchainCreateInfoKHR handed to vkCreateSwapchainKHR
    swapChainImages,
    swapChainImageViews,
    swapChainFramebuffers,
    swapChainImageFormat,
    swapChainExtent,
    apiCalls,               \* the create/destroy calls and file opens made so far, in order
    error,                  \* <<>> or <<what()>> of the exception that reached main
    exitCode,               \* NoValue while running, then main's return value
    stderr,                 \* what main's catch has written to std::cerr, in order
    call,                   \* a direct call of one decision procedure: its name and argument
    ret                     \* <<>> or <<the value the call returned>>

vars == <<snapshot, enableValidationLayers, availableLayers, availableExtensions,
          devices, framebufferSize, pc, windowShouldClose, physicalDevice, graphicsQueue,
          presentationQueue, swapChainCreateInfo, swapChainImages,
          swapChainImageViews, swapChainFramebuffers, swapChainImageFormat,
          swapChainExtent, apiCalls, error, exitCode, stderr, call, ret>>

world == <<snapshot, enableValidationLayers, availableLayers, availableExtensions,
           devices, framebufferSize>>

members == <<physicalDevice, graphicsQueue, presentationQueue, swapChainCreateInfo,
             swapChainImages, swapChainImageViews, swapChainFramebuffers,
             swapChainImageFormat, swapChainExtent>>

(***************************************************************************)
(* Bounds of the model.                                                    *)
(***************************************************************************)
MaxFamilies == 3
MaxFormats == 3
MaxModes == 3
MaxDevices == 2
MaxImageCount == 3

(***************************************************************************)
(* Program constants.                                                      *)
(***************************************************************************)
\* uint32_t is modelled as a 16-bit unsigned word (TLC's integers are
\* 32-bit signed, 2^32 - 1 is not one of them): UINT32_MAX is the word's
\* largest value, arithmetic wraps at UINT32_MAX + 1, and every size and
\* count of the model lies below it.
UINT32_MAX == 65535
NoValue == -1
EXIT_SUCCESS == 0
EXIT_FAILURE == 1

\* Handles are <<kind, index>>; the null handle is of no kind.
Handle(kind, idx) == <<kind, idx>>
VK_NULL_HANDLE == Handle("null", 0)

ToUint32(v) == v % (UINT32_MAX + 1)

Min(a, b) == IF a < b THEN a ELSE b
Max(a, b) == IF a < b THEN b ELSE a

SeqsUpTo(S, n) == UNION {[1..k -> S] : k \in 0..n}

(***************************************************************************)
(* QueueFamilyIndices and findQueueFamilies.                               *)
(* A queue family is [graphics, present]: VK_QUEUE_GRAPHICS_BIT of its     *)
(* queueFlags and vkGetPhysicalDeviceSurfaceSupportKHR for the surface.    *)
(***************************************************************************)
QueueFamily == [graphics : BOOLEAN, present : BOOLEAN]

EmptyIndices == [graphicsFamily |-> NoValue, presentationFamily |-> NoValue]

\* Variant that is content with either of the two families.
isComplete_EitherFamily(indices) ==
    indices.graphicsFamily # NoValue \/ indices.presentationFamily # NoValue

isComplete(indices) ==
    indices.graphicsFamily # NoValue /\ indices.presentationFamily # NoValue

\* Variant of the loop body that keeps the first index found for a capability.
QueueFamilyStep_KeepFirst(queueFamily, i, indices) ==
    LET g == IF queueFamily.graphics /\ indices.graphicsFamily = NoValue
             THEN [indices EXCEPT !.graphicsFamily = i] ELSE indices
    IN  IF queueFamily.present /\ indices.presentationFamily = NoValue
        THEN [g EXCEPT !.presentationFamily = i] ELSE g

\* One iteration of the loop body for the family at position i (0-based).
QueueFamilyStep(queueFamily, i, indices) ==
    LET g == IF queueFamily.graphics
             THEN [indices EXCEPT !.graphicsFamily = i] ELSE indices
    IN  IF queueFamily.present THEN [g EXCEPT !.presentationFamily = i] ELSE g

\* Variant of the loop without the early exit: every family is scanned.
RECURSIVE QueueFamilyLoop_NoBreak(_, _, _)
QueueFamilyLoop_NoBreak(queueFamilies, i, indices) ==
    IF i >= Len(queueFamilies)
    THEN [indices |-> indices, i |-> i]
    ELSE QueueFamilyLoop_NoBreak(queueFamilies, i + 1,
                                 QueueFamilyStep(queueFamilies[i + 1], i, indices))

\* The loop from position i on: the indices and the value of i when it ends.
RECURSIVE QueueFamilyLoop(_, _, _)
QueueFamilyLoop(queueFamilies, i, indices) ==
    IF i >= Len(queueFamilies)
    THEN [indices |-> indices, i |-> i]
    ELSE LET next == QueueFamilyStep(queueFamilies[i + 1], i, indices)
         IN  IF isComplete(next)
             THEN [indices |-> next, i |-> i]
             ELSE QueueFamilyLoop(queueFamilies, i + 1, next)

\* Variant that takes the graphics family for the presentation family too.
findQueueFamilies_PresentOnGraphics(queueFamilies) ==
    LET indices == QueueFamilyLoop(queueFamilies, 0, EmptyIndices).indices
    IN  IF isComplete(indices)
        THEN [indices EXCEPT !.presentationFamily = indices.graphicsFamily]
        ELSE indices

findQueueFamilies(queueFamilies) ==
    QueueFamilyLoop(queueFamilies, 0, EmptyIndices).indices

(***************************************************************************)
(* The swapchain choosers.                                                 *)
(***************************************************************************)
Formats == {"B8G8R8A8_SRGB", "B8G8R8A8_UNORM"}
ColorSpaces == {"SRGB_NONLINEAR", "EXTENDED_SRGB_LINEAR"}
SurfaceFormat == [format : Formats, colorSpace : ColorSpaces]
PresentModes == {"IMMEDIATE", "MAILBOX", "FIFO", "FIFO_RELAXED"}

\* Variant that compares the pixel format only.
IsPreferredFormat_FormatOnly(availableFormat) ==
    availableFormat.format = "B8G8R8A8_SRGB"

IsPreferredFormat(availableFormat) ==
    /\ availableFormat.format = "B8G8R8A8_SRGB"
    /\ availableFormat.colorSpace = "SRGB_NONLINEAR"

\* availableFormats is non-empty here; on an empty vector the code reads
\* element 0 of it, see chooseSwapSurfaceFormatOutcomes.
RECURSIVE FormatLoop(_, _)
FormatLoop(availableFormats, k) ==
    IF k > Len(availableFormats) THEN availableFormats[1]
    ELSE IF IsPreferredFormat(availableFormats[k]) THEN availableFormats[k]
    ELSE FormatLoop(availableFormats, k + 1)

chooseSwapSurfaceFormat(availableFormats) == FormatLoop(availableFormats, 1)

\* Reading availableFormats[0] of an empty vector is undefined: any value.
chooseSwapSurfaceFormatOutcomes(availableFormats) ==
    IF availableFormats = <<>> THEN SurfaceFormat
    ELSE {chooseSwapSurfaceFormat(availableFormats)}

\* Variant whose fallback is the first supported mode.
PresentationModeLoop_FirstSupported(availablePresentationModes, k) ==
    IF \E j \in k..Len(availablePresentationModes) :
           availablePresentationModes[j] = "MAILBOX"
    THEN "MAILBOX"
    ELSE IF availablePresentationModes = <<>> THEN "FIFO"
    ELSE availablePresentationModes[1]

RECURSIVE PresentationModeLoop(_, _)
PresentationModeLoop(availablePresentationModes, k) ==
    IF k > Len(availablePresentationModes) THEN "FIFO"
    ELSE IF availablePresentationModes[k] = "MAILBOX"
         THEN availablePresentationModes[k]
    ELSE PresentationModeLoop(availablePresentationModes, k + 1)

chooseSwapPresentationMode(availablePresentationModes) ==
    PresentationModeLoop(availablePresentationModes, 1)

Extent(w, h) == [width |-> w, height |-> h]

\* Variant that takes the framebuffer size only when both components of
\* currentExtent are UINT32_MAX.
chooseSwapExtent_BothSentinel(capabilities, fbSize) ==
    IF \/ capabilities.currentExtent.width # UINT32_MAX
       \/ capabilities.currentExtent.height # UINT32_MAX
    THEN capabilities.currentExtent
    ELSE LET actualExtent == Extent(ToUint32(fbSize.width), ToUint32(fbSize.height))
         IN  Extent(Max(capabilities.minImageExtent.width,
                        Min(capabilities.maxImageExtent.width, actualExtent.width)),
                    Max(capabilities.minImageExtent.height,
                        Min(capabilities.maxImageExtent.height, actualExtent.height)))

\* Variant that clamps to the maximum only.
chooseSwapExtent_NoLowerClamp(capabilities, fbSize) ==
    IF capabilities.currentExtent.width # UINT32_MAX
    THEN capabilities.currentExtent
    ELSE Extent(Min(capabilities.maxImageExtent.width, ToUint32(fbSize.width)),
                Min(capabilities.maxImageExtent.height, ToUint32(fbSize.height)))

chooseSwapExtent(capabilities, fbSize) ==
    IF capabilities.currentExtent.width # UINT32_MAX
    THEN capabilities.currentExtent
    ELSE LET actualExtent == Extent(ToUint32(fbSize.width), ToUint32(fbSize.height))
         IN  Extent(Max(capabilities.minImageExtent.width,
                        Min(capabilities.maxImageExtent.width, actualExtent.width)),
                    Max(capabilities.minImageExtent.height,
                        Min(capabilities.maxImageExtent.height, actualExtent.height)))

\* Variant that asks for one image more than the minimum, whatever the maximum.
requestedImageCount_NoClamp(capabilities) ==
    ToUint32(capabilities.minImageCount + 1)

\* The image count createSwapChain puts into createInfo.minImageCount.
requestedImageCount(capabilities) ==
    LET imageCount == ToUint32(capabilities.minImageCount + 1)
    IN  IF capabilities.maxImageArrayLayers > 0
           /\ imageCount > capabilities.maxImageCount
        THEN capabilities.maxImageCount
        ELSE imageCount

\* Variant that never shares the images.
sharingMode_AlwaysExclusive(indices) ==
    [imageSharingMode |-> "EXCLUSIVE", queueFamilyIndices |-> <<>>]

\* The sharing mode createSwapChain chooses for a pair of family indices.
sharingMode(indices) ==
    IF indices.graphicsFamily # indices.presentationFamily
    THEN [imageSharingMode |-> "CONCURRENT",
          queueFamilyIndices |-> <<indices.graphicsFamily, indices.presentationFamily>>]
    ELSE [imageSharingMode |-> "EXCLUSIVE", queueFamilyIndices |-> <<>>]

(***************************************************************************)
(* Physical devices.  A device is what the capability queries return for   *)
(* it: its queue families, its device extensions, and the surface's        *)
(* capabilities, formats and present modes on it.                          *)
(***************************************************************************)
deviceExtensions == {"VK_KHR_swapchain"}

\* Variant that is content with any extension the device has.
checkDeviceExtensionSupport_AnyPresent(dev) ==
    dev.extensions # {}

checkDeviceExtensionSupport(dev) ==
    LET requiredExtensions == deviceExtensions \ dev.extensions
    IN  requiredExtensions = {}

querySwapChainSupport(dev) ==
    [capabilities |-> dev.capabilities,
     formats |-> dev.formats,
     presentationModes |-> dev.presentationModes]

\* Variant that looks at the presentation modes only.
isAdequate_ModesOnly(details) ==
    details.presentationModes # <<>>

\* Variant that looks at the formats only.
isAdequate_FormatsOnly(details) ==
    details.formats # <<>>

isAdequate(details) ==
    details.formats # <<>> /\ details.presentationModes # <<>>

\* Variant that asks for a graphics family only.
isDeviceSuitable_GraphicsOnly(dev) ==
    LET indices == findQueueFamilies(dev.queueFamilies)
        extensionsSupported == checkDeviceExtensionSupport(dev)
        swapChainAdequate ==
            IF extensionsSupported THEN isAdequate(querySwapChainSupport(dev))
            ELSE FALSE
    IN  indices.graphicsFamily # NoValue /\ extensionsSupported /\ swapChainAdequate

isDeviceSuitable(dev) ==
    LET indices == findQueueFamilies(dev.queueFamilies)
        extensionsSupported == checkDeviceExtensionSupport(dev)
        swapChainAdequate ==
            IF extensionsSupported THEN isAdequate(querySwapChainSupport(dev))
            ELSE FALSE
    IN  isComplete(indices) /\ extensionsSupported /\ swapChainAdequate

\* Variant of the loop without the break: the last suitable device wins.
RECURSIVE PickLoop_NoBreak(_, _)
PickLoop_NoBreak(devs, k) ==
    IF k > Len(devs) THEN VK_NULL_HANDLE
    ELSE LET later == PickLoop_NoBreak(devs, k + 1)
         IN  IF later # VK_NULL_HANDLE THEN later
             ELSE IF isDeviceSuitable(devs[k]) THEN Handle("physicalDevice", k)
             ELSE VK_NULL_HANDLE

\* The loop of pickPhysicalDevice from position k on: the handle (the
\* position in the enumeration) of the device it assigns, or VK_NULL_HANDLE.
RECURSIVE PickLoop(_, _)
PickLoop(devs, k) ==
    IF k > Len(devs) THEN VK_NULL_HANDLE
    ELSE IF isDeviceSuitable(devs[k]) THEN Handle("physicalDevice", k)
    ELSE PickLoop(devs, k + 1)

(***************************************************************************)
(* The state after construction of HelloTriangleApplication: physicalDevice*)
(* has an initializer, the vectors are empty, nothing was called yet.      *)
(***************************************************************************)
NoCreateInfo == [minImageCount |-> NoValue]

MembersConstructed ==
    /\ physicalDevice = VK_NULL_HANDLE
    /\ graphicsQueue = Handle("uninitialized", 0)
    /\ presentationQueue = Handle("uninitialized", 0)
    /\ swapChainCreateInfo = NoCreateInfo
    /\ swapChainImages = <<>>
    /\ swapChainImageViews = <<>>
    /\ swapChainFramebuffers = <<>>
    /\ swapChainImageFormat = "undefined"
    /\ swapChainExtent = Extent(0, 0)
    /\ windowShouldClose = FALSE

Constructed ==
    /\ MembersConstructed
    /\ apiCalls = <<>>
    /\ error = <<>>
    /\ exitCode = NoValue
    /\ stderr = <<>>

\* A world in which nothing is queried (direct calls of the procedures).
NoWorld ==
    /\ snapshot = "Drawing"
    /\ enableValidationLayers = FALSE
    /\ availableLayers = {}
    /\ availableExtensions = {}
    /\ devices = <<>>
    /\ framebufferSize = Extent(0, 0)

(***************************************************************************)
(* Direct calls of the decision procedures on bounded arguments.           *)
(***************************************************************************)
CurrentWidths == {UINT32_MAX, 800}
CurrentHeights == {UINT32_MAX, 600}
MinDims == {1, 100}
MaxDims == {2000, 4000}
FramebufferDims == {50, 800, 3000}

ExtentCapabilities ==
    [currentExtent : [width : CurrentWidths, height : CurrentHeights],
     minImageExtent : [width : MinDims, height : MinDims],
     maxImageExtent : [width : MaxDims, height : MaxDims]]

\* The devices isDeviceSuitable is called on: every family layout, with and
\* without the required extension, formats and present modes.
DeviceExtensionNames == deviceExtensions \cup {"VK_KHR_maintenance1"}

UnitDevices ==
    {[queueFamilies |-> families, extensions |-> extensions, formats |-> formats,
      presentationModes |-> modes,
      capabilities |-> [minImageCount |-> 2, maxImageCount |-> 3,
                        maxImageArrayLayers |-> 1,
                        currentExtent |-> Extent(800, 600),
                        minImageExtent |-> Extent(1, 1),
                        maxImageExtent |-> Extent(4000, 4000)]] :
        families \in SeqsUpTo(QueueFamily, MaxFamilies),
        extensions \in SUBSET DeviceExtensionNames,
        formats \in {<<>>, <<[format |-> "B8G8R8A8_UNORM",
                             colorSpace |-> "SRGB_NONLINEAR"]>>},
        modes \in {<<>>, <<"IMMEDIATE">>}}

InitUnit ==
    /\ NoWorld
    /\ Constructed
    /\ pc = "call"
    /\ ret = <<>>
    /\ \/ \E q \in SeqsUpTo(QueueFamily, MaxFamilies) :
             call = [fn |-> "findQueueFamilies", arg |-> q]
       \/ \E f \in SeqsUpTo(SurfaceFormat, MaxFormats) :
             call = [fn |-> "chooseSwapSurfaceFormat", arg |-> f]
       \/ \E m \in SeqsUpTo(PresentModes, MaxModes) :
             call = [fn |-> "chooseSwapPresentationMode", arg |-> m]
       \/ \E c \in ExtentCapabilities,
             fb \in [width : FramebufferDims, height : FramebufferDims] :
             call = [fn |-> "chooseSwapExtent",
                     arg |-> [capabilities |-> c, fbSize |-> fb]]
       \/ \E dev \in UnitDevices :
             call = [fn |-> "isDeviceSuitable", arg |-> dev]

Return(v) ==
    /\ ret' = <<v>>
    /\ pc' = "returned"
    /\ UNCHANGED <<world, members, apiCalls, error, exitCode, stderr, call, windowShouldClose>>

CallFindQueueFamilies ==
    /\ pc = "call" /\ call.fn = "findQueueFamilies"
    /\ Return(findQueueFamilies(call.arg))

CallChooseSwapSurfaceFormat ==
    /\ pc = "call" /\ call.fn = "chooseSwapSurfaceFormat"
    /\ \E v \in chooseSwapSurfaceFormatOutcomes(call.arg) : Return(v)

CallChooseSwapPresentationMode ==
    /\ pc = "call" /\ call.fn = "chooseSwapPresentationMode"
    /\ Return(chooseSwapPresentationMode(call.arg))

CallChooseSwapExtent ==
    /\ pc = "call" /\ call.fn = "chooseSwapExtent"
    /\ Return(chooseSwapExtent(call.arg.capabilities, call.arg.fbSize))

CallIsDeviceSuitable ==
    /\ pc = "call" /\ call.fn = "isDeviceSuitable"
    /\ Return(isDeviceSuitable(call.arg))

NextUnit ==
    \/ CallIsDeviceSuitable
    \/ CallFindQueueFamilies
    \/ CallChooseSwapSurfaceFormat
    \/ CallChooseSwapPresentationMode
    \/ CallChooseSwapExtent

SpecUnit == InitUnit /\ [][NextUnit]_vars

Returned(fn) == pc = "returned" /\ call.fn = fn

(***************************************************************************)
(* The run: initWindow, initVulkan's steps, mainLoop, cleanup, and main's  *)
(* try/catch.  Every API create call returns success or failure; apiCalls  *)
(* records each call with its result and the handles it was given.         *)
(***************************************************************************)
Snapshots == {"Setup", "Presentation", "Drawing"}

validationLayers == {"VK_LAYER_KHRONOS_validation"}
\* glfwGetRequiredInstanceExtensions (the platform's list, here X11's).
glfwExtensions == <<"VK_KHR_surface", "VK_KHR_xcb_surface">>
VK_EXT_DEBUG_UTILS_EXTENSION_NAME == "VK_EXT_debug_utils"
InstanceExtensionNames ==
    {glfwExtensions[k] : k \in 1..Len(glfwExtensions)} \cup {VK_EXT_DEBUG_UTILS_EXTENSION_NAME}

\* Variant of initVulkan that creates the swapchain before the logical device.
Steps_SwapChainBeforeDevice(snap) ==
    CASE snap = "Setup" ->
           <<"initWindow", "createInstance", "mainLoop", "cleanup", "return">>
      [] snap = "Presentation" ->
           <<"initWindow", "createInstance", "setupDebugMessenger", "createSurface",
             "pickPhysicalDevice", "createSwapChain", "createLogicalDevice",
             "createImageViews", "mainLoop", "cleanup", "return">>
      [] snap = "Drawing" ->
           <<"initWindow", "createInstance", "setupDebugMessenger", "createSurface",
             "pickPhysicalDevice", "createSwapChain", "createLogicalDevice",
             "createImageViews", "createRenderPass", "createGraphicsPipeline",
             "createFramebuffers", "mainLoop", "cleanup", "return">>

Steps(snap) ==
    CASE snap = "Setup" ->
           <<"initWindow", "createInstance", "mainLoop", "cleanup", "return">>
      [] snap = "Presentation" ->
           <<"initWindow", "createInstance", "setupDebugMessenger", "createSurface",
             "pickPhysicalDevice", "createLogicalDevice", "createSwapChain",
             "createImageViews", "mainLoop", "cleanup", "return">>
      [] snap = "Drawing" ->
           <<"initWindow", "createInstance", "setupDebugMessenger", "createSurface",
             "pickPhysicalDevice", "createLogicalDevice", "createSwapChain",
             "createImageViews", "createRenderPass", "createGraphicsPipeline",
             "createFramebuffers", "mainLoop", "cleanup", "return">>

StepIndex(snap, step) == CHOOSE k \in 1..Len(Steps(snap)) : Steps(snap)[k] = step
NextStep(snap, step) == Steps(snap)[StepIndex(snap, step) + 1]

Ev(op, kind, idx, ok, uses) ==
    [op |-> op, kind |-> kind, idx |-> idx, ok |-> ok, uses |-> uses]
Created(kind, idx, uses) == Ev("create", kind, idx, TRUE, uses)
Failed(kind, idx, uses) == Ev("create", kind, idx, FALSE, uses)
Destroyed(kind, idx, uses) == Ev("destroy", kind, idx, TRUE, uses)
\* std::ifstream on a shader file: is_open() or not.
Opened(kind, idx) == Ev("open", kind, idx, TRUE, {})
OpenFailed(kind, idx) == Ev("open", kind, idx, FALSE, {})

INSTANCE_H == Handle("instance", 0)
DEVICE_H == Handle("device", 0)
Uninitialized == Handle("uninitialized", 0)

\* Variant of throw that run() swallows: the next step runs.
Throw_Swallowed(msg, calls) ==
    /\ pc' = NextStep(snapshot, pc)
    /\ error' = <<msg>>
    /\ apiCalls' = apiCalls \o calls

\* throw std::runtime_error(msg) after the calls made so far; msg is the
\* list of the pieces what() is made of, <<>> for an empty string.
Throw(msg, calls) ==
    /\ pc' = "catch"
    /\ error' = <<msg>>
    /\ apiCalls' = apiCalls \o calls

Proceed(calls) ==
    /\ pc' = NextStep(snapshot, pc)
    /\ error' = error
    /\ apiCalls' = apiCalls \o calls

harness == <<call, ret>>

initWindow ==
    /\ pc = "initWindow"
    /\ Proceed(<<Created("glfw", 0, {}), Created("window", 0, {})>>)
    /\ UNCHANGED <<world, harness, members, exitCode, stderr, windowShouldClose>>

\* The loop looks every requested layer up and prints what it finds; the
\* value returned does not depend on it.
checkValidationLayerSupport(layers) ==
    LET layerFound == [layerName \in validationLayers |-> layerName \in layers]
    IN  TRUE

\* Variant that looks only the first required extension up.
checkRequiredExtensionsPresent_FirstOnly(availableExt, requiredExt, i) ==
    IF requiredExt # <<>> /\ requiredExt[1] \notin availableExt
    THEN <<requiredExt[1]>> ELSE <<>>

\* The first required extension that is not available, as <<name>>, or <<>>
\* when every one was found (the function then returns normally).
RECURSIVE checkRequiredExtensionsPresent(_, _, _)
checkRequiredExtensionsPresent(availableExt, requiredExt, i) ==
    IF i > Len(requiredExt) THEN <<>>
    ELSE IF requiredExt[i] \notin availableExt THEN <<requiredExt[i]>>
    ELSE checkRequiredExtensionsPresent(availableExt, requiredExt, i + 1)

\* what() of the exception checkRequiredExtensionsPresent throws: Setup
\* streams the text into errorMessage, the later snapshots stream it to
\* std::cout and throw the empty errorMessage.
MissingExtensionMessage(snap, name) ==
    IF snap = "Setup" THEN <<"ERROR! Missing ", name, "\n">> ELSE <<>>

\* The extensions createInstance enables (getAndCheckRequiredExtensions).
requiredExtensions(snap, validation) ==
    IF snap # "Setup" /\ validation
    THEN Append(glfwExtensions, VK_EXT_DEBUG_UTILS_EXTENSION_NAME)
    ELSE glfwExtensions

createInstance ==
    /\ pc = "createInstance"
    /\ IF /\ snapshot # "Setup"
          /\ enableValidationLayers
          /\ ~checkValidationLayerSupport(availableLayers)
       THEN Throw(<<"ERROR! Validation layers requested, but not available!">>, <<>>)
       ELSE LET missing == checkRequiredExtensionsPresent(availableExtensions,
                                                          glfwExtensions, 1)
            IN  IF missing # <<>>
                THEN Throw(MissingExtensionMessage(snapshot, missing[1]), <<>>)
                ELSE \/ Proceed(<<Created("instance", 0, {})>>)
                     \/ Throw(<<"failed to create instance!">>,
                              <<Failed("instance", 0, {})>>)
    /\ UNCHANGED <<world, harness, members, exitCode, stderr, windowShouldClose>>

setupDebugMessenger ==
    /\ pc = "setupDebugMessenger"
    /\ IF ~enableValidationLayers
       THEN Proceed(<<>>)
       ELSE \/ Proceed(<<Created("debugMessenger", 0, {INSTANCE_H})>>)
            \/ Throw(<<"ERROR! Failed to setup the debug messenger!">>,
                     <<Failed("debugMessenger", 0, {INSTANCE_H})>>)
    /\ UNCHANGED <<world, harness, members, exitCode, stderr, windowShouldClose>>

createSurface ==
    /\ pc = "createSurface"
    /\ \/ Proceed(<<Created("surface", 0, {INSTANCE_H, Handle("window", 0)})>>)
       \/ Throw(<<"ERROR! Failed to create window surface!">>,
                <<Failed("surface", 0, {INSTANCE_H, Handle("window", 0)})>>)
    /\ UNCHANGED <<world, harness, members, exitCode, stderr, windowShouldClose>>

\* Variant without the deviceCount == 0 test: the loop runs on the empty list.
pickPhysicalDevice_NoEmptyCheck ==
    /\ pc = "pickPhysicalDevice"
    /\ LET found == PickLoop(devices, 1)
           picked == IF found # VK_NULL_HANDLE THEN found ELSE physicalDevice
       IN  /\ physicalDevice' = picked
           /\ IF picked = VK_NULL_HANDLE
              THEN Throw(<<"ERROR! Failed to find a suitable GPU!">>, <<>>)
              ELSE Proceed(<<>>)
    /\ UNCHANGED <<world, harness, graphicsQueue, presentationQueue,
                   swapChainCreateInfo, swapChainImages, swapChainImageViews,
                   swapChainFramebuffers, swapChainImageFormat, swapChainExtent,
                   exitCode, stderr, windowShouldClose>>

pickPhysicalDevice ==
    /\ pc = "pickPhysicalDevice"
    /\ IF Len(devices) = 0
       THEN /\ Throw(<<"ERROR! Failed to find GPUs with Vulkan support!">>, <<>>)
            /\ physicalDevice' = physicalDevice
       ELSE LET found == PickLoop(devices, 1)
                picked == IF found # VK_NULL_HANDLE THEN found ELSE physicalDevice
            IN  /\ physicalDevice' = picked
                /\ IF picked = VK_NULL_HANDLE
                   THEN Throw(<<"ERROR! Failed to find a suitable GPU!">>, <<>>)
                   ELSE Proceed(<<>>)
    /\ UNCHANGED <<world, harness, graphicsQueue, presentationQueue,
                   swapChainCreateInfo, swapChainImages, swapChainImageViews,
                   swapChainFramebuffers, swapChainImageFormat, swapChainExtent,
                   exitCode, stderr, windowShouldClose>>

SelectedDevice == devices[physicalDevice[2]]

\* optional::value() on an empty optional throws std::bad_optional_access.
BadOptionalAccess == <<"bad optional access">>

createLogicalDevice ==
    /\ pc = "createLogicalDevice"
    /\ LET indices == findQueueFamilies(SelectedDevice.queueFamilies)
       IN  IF ~isComplete(indices)
           THEN /\ Throw(BadOptionalAccess, <<>>)
                /\ UNCHANGED <<graphicsQueue, presentationQueue>>
           ELSE \/ /\ Throw(<<"ERROR! Failed to create a logical device!">>,
                            <<Failed("device", 0, {physicalDevice})>>)
                   /\ UNCHANGED <<graphicsQueue, presentationQueue>>
                \/ /\ Proceed(<<Created("device", 0, {physicalDevice})>>)
                   \* both vkGetDeviceQueue calls store into graphicsQueue:
                   \* the second overwrites the first
                   /\ graphicsQueue' = Handle("queue", indices.presentationFamily)
                   /\ presentationQueue' = presentationQueue
    /\ UNCHANGED <<world, harness, physicalDevice, swapChainCreateInfo,
                   swapChainImages, swapChainImageViews, swapChainFramebuffers,
                   swapChainImageFormat, swapChainExtent, exitCode, stderr,
                   windowShouldClose>>

\* The number of images vkGetSwapchainImagesKHR reports: at least the
\* requested minimum, and at least one.
ImageCounts(requested) == {n \in 1..(MaxImageCount + 1) : n >= requested}

createSwapChain ==
    /\ pc = "createSwapChain"
    /\ LET swapChainSupport == querySwapChainSupport(SelectedDevice)
           presentationMode ==
               chooseSwapPresentationMode(swapChainSupport.presentationModes)
           extent == chooseSwapExtent(swapChainSupport.capabilities, framebufferSize)
           imageCount == requestedImageCount(swapChainSupport.capabilities)
           indices == findQueueFamilies(SelectedDevice.queueFamilies)
           uses == {DEVICE_H, Handle("surface", 0)}
       IN  \E surfaceFormat \in chooseSwapSurfaceFormatOutcomes(swapChainSupport.formats) :
             IF ~isComplete(indices)
             THEN /\ Throw(BadOptionalAccess, <<>>)
                  /\ UNCHANGED <<swapChainCreateInfo, swapChainImages,
                                 swapChainImageFormat, swapChainExtent>>
             ELSE LET createInfo ==
                        [minImageCount |-> imageCount,
                         imageFormat |-> surfaceFormat.format,
                         imageColorSpace |-> surfaceFormat.colorSpace,
                         imageExtent |-> extent,
                         imageSharingMode |-> sharingMode(indices).imageSharingMode,
                         queueFamilyIndices |-> sharingMode(indices).queueFamilyIndices,
                         presentMode |-> presentationMode]
                  IN  /\ swapChainCreateInfo' = createInfo
                      /\ \/ /\ Throw(<<"ERROR! Failed to create swap chain!">>,
                                     <<Failed("swapChain", 0, uses)>>)
                            /\ UNCHANGED <<swapChainImages, swapChainImageFormat,
                                           swapChainExtent>>
                         \/ \E n \in ImageCounts(imageCount) :
                              /\ Proceed(<<Created("swapChain", 0, uses)>>)
                              /\ swapChainImages' = [i \in 1..n |-> Handle("image", i)]
                              /\ swapChainImageFormat' = surfaceFormat.format
                              /\ swapChainExtent' = extent
    /\ UNCHANGED <<world, harness, physicalDevice, graphicsQueue, presentationQueue,
                   swapChainImageViews, swapChainFramebuffers, exitCode, stderr,
                   windowShouldClose>>

createImageViews ==
    /\ pc = "createImageViews"
    /\ LET n == Len(swapChainImages)
       IN  \E k \in 0..n :  \* vkCreateImageView succeeds for the first k images
             LET calls == [i \in 1..Min(k + 1, n) |->
                             Ev("create", "imageView", i, i <= k,
                                {DEVICE_H, swapChainImages[i]})]
             IN  /\ swapChainImageViews' =
                        [i \in 1..n |-> IF i <= k THEN Handle("imageView", i)
                                        ELSE VK_NULL_HANDLE]
                 /\ IF k = n THEN Proceed(calls)
                    ELSE Throw(<<"ERROR! Failed to create image views!">>, calls)
    /\ UNCHANGED <<world, harness, physicalDevice, graphicsQueue, presentationQueue,
                   swapChainCreateInfo, swapChainImages, swapChainFramebuffers,
                   swapChainImageFormat, swapChainExtent, exitCode, stderr,
                   windowShouldClose>>

createRenderPass ==
    /\ pc = "createRenderPass"
    /\ \/ Proceed(<<Created("renderPass", 0, {DEVICE_H})>>)
       \/ Throw(<<"ERROR! Failed to create render pass!">>,
                <<Failed("renderPass", 0, {DEVICE_H})>>)
    /\ UNCHANGED <<world, harness, members, exitCode, stderr, windowShouldClose>>

VERT == Handle("shaderModule", 0)
FRAG == Handle("shaderModule", 1)

\* The calls createGraphicsPipeline makes up to the point it leaves at.
PipelineCalls(leftAt) ==
    LET files == <<Opened("shaderFile", 0), Opened("shaderFile", 1)>>
        vert == Created("shaderModule", 0, {DEVICE_H})
        frag == Created("shaderModule", 1, {DEVICE_H})
        layout == Created("pipelineLayout", 0, {DEVICE_H})
        pipelineUses == {DEVICE_H, VERT, FRAG, Handle("pipelineLayout", 0),
                         Handle("renderPass", 0)}
    IN  CASE leftAt = "vertFile" -> <<OpenFailed("shaderFile", 0)>>
          [] leftAt = "fragFile" ->
               <<Opened("shaderFile", 0), OpenFailed("shaderFile", 1)>>
          [] leftAt = "vertModule" ->
               files \o <<Failed("shaderModule", 0, {DEVICE_H})>>
          [] leftAt = "fragModule" ->
               files \o <<vert, Failed("shaderModule", 1, {DEVICE_H})>>
          [] leftAt = "pipelineLayout" ->
               files \o <<vert, frag, Failed("pipelineLayout", 0, {DEVICE_H})>>
          [] leftAt = "graphicsPipeline" ->
               files \o <<vert, frag, layout,
                          Failed("graphicsPipeline", 0, pipelineUses)>>
          [] leftAt = "end" ->
               files \o <<vert, frag, layout,
                          Created("graphicsPipeline", 0, pipelineUses),
                          Destroyed("shaderModule", 1, {DEVICE_H}),
                          Destroyed("shaderModule", 0, {DEVICE_H})>>

PipelineMessage(leftAt) ==
    CASE leftAt \in {"vertFile", "fragFile"} -> <<"ERROR! Failed to open file!">>
      [] leftAt \in {"vertModule", "fragModule"} ->
           <<"ERROR! Failed to create shader module!">>
      [] leftAt = "pipelineLayout" -> <<"ERROR! Failed to create pipeline layout!">>
      [] leftAt = "graphicsPipeline" -> <<"ERROR! Failed to create graphics pipeline!">>

createGraphicsPipeline ==
    /\ pc = "createGraphicsPipeline"
    /\ \E leftAt \in {"vertFile", "fragFile", "vertModule", "fragModule",
                      "pipelineLayout", "graphicsPipeline", "end"} :
          IF leftAt = "end" THEN Proceed(PipelineCalls(leftAt))
          ELSE Throw(PipelineMessage(leftAt), PipelineCalls(leftAt))
    /\ UNCHANGED <<world, harness, members, exitCode, stderr, windowShouldClose>>

\* Variant in which every framebuffer attaches the first image view.
createFramebuffers_FirstViewOnly ==
    /\ pc = "createFramebuffers"
    /\ LET n == Len(swapChainImageViews)
       IN  \E k \in 0..n :
             LET calls == [i \in 1..Min(k + 1, n) |->
                             Ev("create", "framebuffer", i, i <= k,
                                {DEVICE_H, Handle("renderPass", 0),
                                 swapChainImageViews[1]})]
             IN  /\ swapChainFramebuffers' =
                        [i \in 1..n |-> IF i <= k THEN Handle("framebuffer", i)
                                        ELSE VK_NULL_HANDLE]
                 /\ IF k = n THEN Proceed(calls)
                    ELSE Throw(<<"ERROR! Failed to create framebuffer!">>, calls)
    /\ UNCHANGED <<world, harness, physicalDevice, graphicsQueue, presentationQueue,
                   swapChainCreateInfo, swapChainImages, swapChainImageViews,
                   swapChainImageFormat, swapChainExtent, exitCode, stderr,
                   windowShouldClose>>

createFramebuffers ==
    /\ pc = "createFramebuffers"
    /\ LET n == Len(swapChainImageViews)
       IN  \E k \in 0..n :  \* vkCreateFramebuffer succeeds for the first k views
             LET calls == [i \in 1..Min(k + 1, n) |->
                             Ev("create", "framebuffer", i, i <= k,
                                {DEVICE_H, Handle("renderPass", 0),
                                 swapChainImageViews[i]})]
             IN  /\ swapChainFramebuffers' =
                        [i \in 1..n |-> IF i <= k THEN Handle("framebuffer", i)
                                        ELSE VK_NULL_HANDLE]
                 /\ IF k = n THEN Proceed(calls)
                    ELSE Throw(<<"ERROR! Failed to create framebuffer!">>, calls)
    /\ UNCHANGED <<world, harness, physicalDevice, graphicsQueue, presentationQueue,
                   swapChainCreateInfo, swapChainImages, swapChainImageViews,
                   swapChainImageFormat, swapChainExtent, exitCode, stderr,
                   windowShouldClose>>

\* One iteration of the loop: the close flag is clear, glfwPollEvents runs
\* and processes a close request or none.
mainLoopPoll ==
    /\ pc = "mainLoop"
    /\ ~windowShouldClose
    /\ \E closeRequested \in BOOLEAN : windowShouldClose' = closeRequested
    /\ UNCHANGED <<world, harness, members, pc, apiCalls, error, exitCode, stderr>>

\* Variant of the loop that ends without looking at the close flag.
mainLoopExit_Unconditional ==
    /\ pc = "mainLoop"
    /\ Proceed(<<>>)
    /\ UNCHANGED <<world, harness, members, exitCode, stderr, windowShouldClose>>

\* The loop condition observes the close flag and the loop ends.
mainLoopExit ==
    /\ pc = "mainLoop"
    /\ windowShouldClose
    /\ Proceed(<<>>)
    /\ UNCHANGED <<world, harness, members, exitCode, stderr, windowShouldClose>>

DestroyEach(kind, handles) ==
    [i \in 1..Len(handles) |-> Destroyed(kind, handles[i][2], {DEVICE_H})]

\* Variant of cleanup that destroys the logical device before what it owns.
cleanupCalls_DeviceFirst(snap, validation, views, framebuffers) ==
    LET instanceDown == <<Destroyed("instance", 0, {}), Destroyed("window", 0, {}),
                          Destroyed("glfw", 0, {})>>
        deviceDown ==
            <<Destroyed("device", 0, {})>>
            \o DestroyEach("imageView", views)
            \o <<Destroyed("swapChain", 0, {DEVICE_H})>>
            \o (IF validation THEN <<Destroyed("debugMessenger", 0, {INSTANCE_H})>>
                ELSE <<>>)
            \o <<Destroyed("surface", 0, {INSTANCE_H})>>
    IN  CASE snap = "Setup" -> instanceDown
          [] snap = "Presentation" -> deviceDown \o instanceDown
          [] snap = "Drawing" ->
               DestroyEach("framebuffer", framebuffers)
               \o <<Destroyed("graphicsPipeline", 0, {DEVICE_H}),
                    Destroyed("pipelineLayout", 0, {DEVICE_H}),
                    Destroyed("renderPass", 0, {DEVICE_H})>>
               \o deviceDown \o instanceDown

\* Variant of cleanup that destroys the debug messenger whether or not the
\* validation layers are enabled.
cleanupCalls_AlwaysMessenger(snap, validation, views, framebuffers) ==
    LET instanceDown == <<Destroyed("instance", 0, {}), Destroyed("window", 0, {}),
                          Destroyed("glfw", 0, {})>>
        deviceDown ==
            DestroyEach("imageView", views)
            \o <<Destroyed("swapChain", 0, {DEVICE_H}), Destroyed("device", 0, {})>>
            \o <<Destroyed("debugMessenger", 0, {INSTANCE_H})>>
            \o <<Destroyed("surface", 0, {INSTANCE_H})>>
    IN  CASE snap = "Setup" -> instanceDown
          [] snap = "Presentation" -> deviceDown \o instanceDown
          [] snap = "Drawing" ->
               DestroyEach("framebuffer", framebuffers)
               \o <<Destroyed("graphicsPipeline", 0, {DEVICE_H}),
                    Destroyed("pipelineLayout", 0, {DEVICE_H}),
                    Destroyed("renderPass", 0, {DEVICE_H})>>
               \o deviceDown \o instanceDown

\* Variant of cleanup that destroys the surface before the debug messenger.
cleanupCalls_SurfaceFirst(snap, validation, views, framebuffers) ==
    LET instanceDown == <<Destroyed("instance", 0, {}), Destroyed("window", 0, {}),
                          Destroyed("glfw", 0, {})>>
        deviceDown ==
            DestroyEach("imageView", views)
            \o <<Destroyed("swapChain", 0, {DEVICE_H}), Destroyed("device", 0, {})>>
            \o <<Destroyed("surface", 0, {INSTANCE_H})>>
            \o (IF validation THEN <<Destroyed("debugMessenger", 0, {INSTANCE_H})>>
                ELSE <<>>)
    IN  CASE snap = "Setup" -> instanceDown
          [] snap = "Presentation" -> deviceDown \o instanceDown
          [] snap = "Drawing" ->
               DestroyEach("framebuffer", framebuffers)
               \o <<Destroyed("graphicsPipeline", 0, {DEVICE_H}),
                    Destroyed("pipelineLayout", 0, {DEVICE_H}),
                    Destroyed("renderPass", 0, {DEVICE_H})>>
               \o deviceDown \o instanceDown

\* The destroy calls of cleanup, in the order it makes them.
cleanupCalls(snap, validation, views, framebuffers) ==
    LET instanceDown == <<Destroyed("instance", 0, {}), Destroyed("window", 0, {}),
                          Destroyed("glfw", 0, {})>>
        deviceDown ==
            DestroyEach("imageView", views)
            \o <<Destroyed("swapChain", 0, {DEVICE_H}), Destroyed("device", 0, {})>>
            \o (IF validation THEN <<Destroyed("debugMessenger", 0, {INSTANCE_H})>>
                ELSE <<>>)
            \o <<Destroyed("surface", 0, {INSTANCE_H})>>
    IN  CASE snap = "Setup" -> instanceDown
          [] snap = "Presentation" -> deviceDown \o instanceDown
          [] snap = "Drawing" ->
               DestroyEach("framebuffer", framebuffers)
               \o <<Destroyed("graphicsPipeline", 0, {DEVICE_H}),
                    Destroyed("pipelineLayout", 0, {DEVICE_H}),
                    Destroyed("renderPass", 0, {DEVICE_H})>>
               \o deviceDown \o instanceDown

cleanup ==
    /\ pc = "cleanup"
    /\ Proceed(cleanupCalls(snapshot, enableValidationLayers, swapChainImageViews,
                            swapChainFramebuffers))
    /\ UNCHANGED <<world, harness, members, exitCode, stderr, windowShouldClose>>

\* run() returned: main returns EXIT_SUCCESS.
mainReturn ==
    /\ pc = "return"
    /\ pc' = "exited"
    /\ exitCode' = EXIT_SUCCESS
    /\ UNCHANGED <<world, harness, members, apiCalls, error, stderr, windowShouldClose>>

\* The exception reached main's catch: it prints what() and returns
\* EXIT_FAILURE.
mainCatch ==
    /\ pc = "catch"
    /\ pc' = "exited"
    /\ exitCode' = EXIT_FAILURE
    /\ stderr' = Append(stderr, error[1])
    /\ UNCHANGED <<world, harness, members, apiCalls, error, windowShouldClose>>

(***************************************************************************)
(* The worlds of the whole run.                                            *)
(***************************************************************************)
DefaultCapabilities ==
    [minImageCount |-> 2, maxImageCount |-> 3, maxImageArrayLayers |-> 1,
     currentExtent |-> Extent(800, 600),
     minImageExtent |-> Extent(1, 1),
     maxImageExtent |-> Extent(4000, 4000)]

Device(families, extensions, formats, modes, capabilities) ==
    [queueFamilies |-> families, extensions |-> extensions, formats |-> formats,
     presentationModes |-> modes, capabilities |-> capabilities]

RunDevices ==
    {Device(families, deviceExtensions,
            <<[format |-> "B8G8R8A8_SRGB", colorSpace |-> "SRGB_NONLINEAR"]>>,
            <<"FIFO">>, DefaultCapabilities) :
        families \in {<<[graphics |-> TRUE, present |-> FALSE]>>,
                      <<[graphics |-> TRUE, present |-> TRUE]>>,
                      <<[graphics |-> TRUE, present |-> FALSE],
                        [graphics |-> FALSE, present |-> TRUE]>>}}

NotCalled == [fn |-> "run", arg |-> <<>>]

Init ==
    /\ snapshot \in Snapshots
    /\ availableExtensions \in SUBSET InstanceExtensionNames
    /\ IF snapshot = "Setup"
       THEN /\ enableValidationLayers = FALSE
            /\ availableLayers = {}
            /\ devices = <<>>
       ELSE /\ enableValidationLayers \in BOOLEAN
            /\ availableLayers \in SUBSET validationLayers
            /\ devices \in SeqsUpTo(RunDevices, MaxDevices)
    /\ framebufferSize = Extent(800, 600)
    /\ Constructed
    /\ pc = "initWindow"
    /\ call = NotCalled
    /\ ret = <<>>

Next ==
    \/ initWindow
    \/ createInstance
    \/ setupDebugMessenger
    \/ createSurface
    \/ pickPhysicalDevice
    \/ createLogicalDevice
    \/ createSwapChain
    \/ createImageViews
    \/ createRenderPass
    \/ createGraphicsPipeline
    \/ createFramebuffers
    \/ mainLoopPoll
    \/ mainLoopExit
    \/ cleanup
    \/ mainReturn
    \/ mainCatch

Spec == Init /\ [][Next]_vars

\* The steps the program takes by itself: every step but the one that waits
\* for the user (an iteration of mainLoop while the close flag is clear,
\* where whether the flag gets set is the user's doing).
Advance == Next /\ (pc = "mainLoop" => windowShouldClose)

\* The run on a thread that keeps executing: main is the only thread and
\* nothing in it blocks, so a step the program can take is taken.
SpecLive == Spec /\ WF_vars(Advance)

(***************************************************************************)
(* Device selection and swapchain creation on wider worlds: the Drawing    *)
(* snapshot, built without validation layers, from the point where         *)
(* createSurface has returned.                                             *)
(***************************************************************************)
CallsBeforePick ==
    <<Created("glfw", 0, {}), Created("window", 0, {}), Created("instance", 0, {}),
      Created("surface", 0, {INSTANCE_H, Handle("window", 0)})>>

PickDevices ==
    {Device(families, extensions, formats, modes, DefaultCapabilities) :
        families \in {<<>>,
                      <<[graphics |-> TRUE, present |-> FALSE]>>,
                      <<[graphics |-> FALSE, present |-> TRUE]>>,
                      <<[graphics |-> TRUE, present |-> TRUE]>>,
                      <<[graphics |-> TRUE, present |-> FALSE],
                        [graphics |-> FALSE, present |-> TRUE]>>},
        extensions \in {{}, deviceExtensions},
        formats \in {<<>>, <<[format |-> "B8G8R8A8_SRGB",
                             colorSpace |-> "SRGB_NONLINEAR"]>>},
        modes \in {<<>>, <<"FIFO">>}}

SwapCapabilities ==
    {[minImageCount |-> lo, maxImageCount |-> hi, maxImageArrayLayers |-> layers,
      currentExtent |-> current,
      minImageExtent |-> Extent(100, 100),
      maxImageExtent |-> Extent(2000, 2000)] :
        lo \in 1..MaxImageCount, hi \in 0..MaxImageCount, layers \in {1, 2},
        current \in {Extent(UINT32_MAX, UINT32_MAX), Extent(800, 600)}}

\* Suitable devices with every family layout that decides the sharing mode.
SwapDevices ==
    {Device(families, deviceExtensions, formats, modes, capabilities) :
        families \in {<<[graphics |-> TRUE, present |-> TRUE]>>,
                      <<[graphics |-> TRUE, present |-> FALSE],
                        [graphics |-> FALSE, present |-> TRUE]>>,
                      <<[graphics |-> FALSE, present |-> TRUE],
                        [graphics |-> TRUE, present |-> FALSE]>>,
                      <<[graphics |-> TRUE, present |-> FALSE],
                        [graphics |-> TRUE, present |-> TRUE]>>,
                      <<[graphics |-> FALSE, present |-> FALSE],
                        [graphics |-> TRUE, present |-> TRUE]>>,
                      <<[graphics |-> TRUE, present |-> TRUE],
                        [graphics |-> TRUE, present |-> TRUE]>>,
                      <<[graphics |-> TRUE, present |-> TRUE],
                        [graphics |-> FALSE, present |-> TRUE],
                        [graphics |-> TRUE, present |-> FALSE]>>,
                      <<[graphics |-> FALSE, present |-> FALSE],
                        [graphics |-> FALSE, present |-> TRUE],
                        [graphics |-> TRUE, present |-> FALSE]>>},
        formats \in {<<[format |-> "B8G8R8A8_UNORM", colorSpace |-> "SRGB_NONLINEAR"]>>,
                     <<[format |-> "B8G8R8A8_UNORM", colorSpace |-> "SRGB_NONLINEAR"],
                       [format |-> "B8G8R8A8_SRGB", colorSpace |-> "SRGB_NONLINEAR"]>>},
        modes \in {<<"FIFO">>, <<"FIFO", "MAILBOX">>},
        capabilities \in {c \in SwapCapabilities :
                            c.maxImageCount = 0 \/ c.maxImageCount >= c.minImageCount}}

InitDevice ==
    /\ snapshot = "Drawing"
    /\ enableValidationLayers = FALSE
    /\ availableLayers = {}
    /\ availableExtensions = InstanceExtensionNames
    /\ \/ /\ devices \in SeqsUpTo(PickDevices, MaxDevices)
          /\ framebufferSize = Extent(800, 600)
       \/ /\ \E d \in SwapDevices : devices = <<d>>
          /\ framebufferSize \in {Extent(800, 600), Extent(50, 3000)}
    /\ MembersConstructed
    /\ apiCalls = CallsBeforePick
    /\ error = <<>>
    /\ exitCode = NoValue
    /\ stderr = <<>>
    /\ pc = "pickPhysicalDevice"
    /\ call = NotCalled
    /\ ret = <<>>

NextDevice ==
    \/ pickPhysicalDevice
    \/ createLogicalDevice
    \/ createSwapChain
    \/ mainCatch

SpecDevice == InitDevice /\ [][NextDevice]_vars

(***************************************************************************)
(* Claims about the decision procedures (checked under SpecUnit).          *)
(***************************************************************************)
G_ONLY == [graphics |-> TRUE, present |-> FALSE]
P_ONLY == [graphics |-> FALSE, present |-> TRUE]
BOTH == [graphics |-> TRUE, present |-> TRUE]
NEITHER == [graphics |-> FALSE, present |-> FALSE]

\* Families 0..k together provide both capabilities.
BothSeenBy(q, k) ==
    /\ \E i \in 0..k : q[i + 1].graphics
    /\ \E i \in 0..k : q[i + 1].present

\* The 0-based indices the scan inspects: up to the first k with both seen.
ScannedFamilies(q) ==
    IF \E k \in 0..(Len(q) - 1) : BothSeenBy(q, k)
    THEN 0..(CHOOSE k \in 0..(Len(q) - 1) :
                BothSeenBy(q, k) /\ \A j \in 0..(k - 1) : ~BothSeenBy(q, j))
    ELSE 0..(Len(q) - 1)

SetMin(S) == CHOOSE x \in S : \A y \in S : x <= y
SetMax(S) == CHOOSE x \in S : \A y \in S : x >= y

LowestScanned(q, capability) ==
    LET S == {i \in ScannedFamilies(q) : q[i + 1][capability]}
    IN  IF S = {} THEN NoValue ELSE SetMin(S)

HighestScanned(q, capability) ==
    LET S == {i \in ScannedFamilies(q) : q[i + 1][capability]}
    IN  IF S = {} THEN NoValue ELSE SetMax(S)

\* C2 as stated: each index findQueueFamilies returns is the lowest index
\* among the scanned families that has the capability.
C2_LowestIndexPerCapability ==
    Returned("findQueueFamilies") =>
        /\ ret[1].graphicsFamily = LowestScanned(call.arg, "graphics")
        /\ ret[1].presentationFamily = LowestScanned(call.arg, "present")

\* C2 amended: each index findQueueFamilies returns is the highest index
\* among the scanned families (family 0 up to the first family at which both
\* capabilities have been seen, all families when there is none) that has
\* the capability: a later match overwrites an earlier one.  The two
\* capabilities are decided independently of each other.
C2_LastIndexPerCapability ==
    Returned("findQueueFamilies") =>
        /\ ret[1].graphicsFamily = HighestScanned(call.arg, "graphics")
        /\ ret[1].presentationFamily = HighestScanned(call.arg, "present")

\* C2 witness: [graphics-only, graphics-only, presentation-only] returns
\* graphics = 1 (not 0) and presentation = 2.
C2_Witness ==
    /\ Returned("findQueueFamilies")
    /\ call.arg = <<G_ONLY, G_ONLY, P_ONLY>>
    /\ ret[1] = [graphicsFamily |-> 1, presentationFamily |-> 2]

IsSentinel(extent) == extent.width = UINT32_MAX /\ extent.height = UINT32_MAX
IsFixed(extent) == extent.width # UINT32_MAX /\ extent.height # UINT32_MAX

\* v clamped into [lo, hi], stated by cases.
IsClamped(r, v, lo, hi) ==
    /\ lo <= r /\ r <= hi
    /\ (lo <= v /\ v <= hi) => r = v
    /\ v < lo => r = lo
    /\ v > hi => r = hi

\* C4: chooseSwapExtent returns currentExtent unchanged when it is a fixed
\* extent; when currentExtent is the UINT32_MAX sentinel it returns the
\* framebuffer size clamped component-wise into [minImageExtent,
\* maxImageExtent]; sentinel, min (100,100), max (2000,2000) and framebuffer
\* (50,3000) give (100,2000).
C4_ExtentFixedOrClamped ==
    Returned("chooseSwapExtent") =>
        LET c == call.arg.capabilities
            fb == call.arg.fbSize
        IN  /\ IsFixed(c.currentExtent) => ret[1] = c.currentExtent
            /\ IsSentinel(c.currentExtent) =>
                 /\ IsClamped(ret[1].width, fb.width,
                              c.minImageExtent.width, c.maxImageExtent.width)
                 /\ IsClamped(ret[1].height, fb.height,
                              c.minImageExtent.height, c.maxImageExtent.height)
            /\ ( /\ IsSentinel(c.currentExtent)
                 /\ c.minImageExtent = Extent(100, 100)
                 /\ c.maxImageExtent = Extent(2000, 2000)
                 /\ fb = Extent(50, 3000) ) => ret[1] = Extent(100, 2000)

\* C4 witness: the example of the claim has been computed.
C4_Witness ==
    /\ Returned("chooseSwapExtent")
    /\ call.arg = [capabilities |->
                     [currentExtent |-> Extent(UINT32_MAX, UINT32_MAX),
                      minImageExtent |-> Extent(100, 100),
                      maxImageExtent |-> Extent(2000, 2000)],
                   fbSize |-> Extent(50, 3000)]
    /\ ret[1] = Extent(100, 2000)

PREFERRED == [format |-> "B8G8R8A8_SRGB", colorSpace |-> "SRGB_NONLINEAR"]

\* C6: on a non-empty list chooseSwapSurfaceFormat returns the
\* B8G8R8A8_SRGB / SRGB_NONLINEAR entry when the list has one at any
\* position (an entry matching one field only does not count), and the
\* first element when it has none.
C6_PreferredFormatElseFirst ==
    (Returned("chooseSwapSurfaceFormat") /\ call.arg # <<>>) =>
        IF \E k \in 1..Len(call.arg) :
               /\ call.arg[k].format = "B8G8R8A8_SRGB"
               /\ call.arg[k].colorSpace = "SRGB_NONLINEAR"
        THEN ret[1] = PREFERRED
        ELSE ret[1] = call.arg[1]

\* C6 witness: the preferred entry is last, after entries that match one
\* field each, and is the one returned.
C6_Witness ==
    /\ Returned("chooseSwapSurfaceFormat")
    /\ call.arg = <<[format |-> "B8G8R8A8_UNORM", colorSpace |-> "SRGB_NONLINEAR"],
                    [format |-> "B8G8R8A8_SRGB", colorSpace |-> "EXTENDED_SRGB_LINEAR"],
                    PREFERRED>>
    /\ ret[1] = PREFERRED

\* C7: chooseSwapPresentationMode returns MAILBOX exactly when MAILBOX is in
\* the list, and FIFO in every other case, also for an empty list and for a
\* list without FIFO.
C7_MailboxElseFifo ==
    Returned("chooseSwapPresentationMode") =>
        LET supported == {call.arg[k] : k \in 1..Len(call.arg)}
        IN  /\ ret[1] = "MAILBOX" <=> "MAILBOX" \in supported
            /\ "MAILBOX" \notin supported => ret[1] = "FIFO"

\* C7 witness: a list with neither MAILBOX nor FIFO yields FIFO.
C7_Witness ==
    /\ Returned("chooseSwapPresentationMode")
    /\ call.arg = <<"IMMEDIATE", "FIFO_RELAXED">>
    /\ ret[1] = "FIFO"

(***************************************************************************)
(* Claims about device selection and swapchain creation (SpecDevice).      *)
(***************************************************************************)
\* The four conditions of suitability, stated on the device's data.
MeetsAllFour(dev) ==
    /\ \E k \in 1..Len(dev.queueFamilies) : dev.queueFamilies[k].graphics
    /\ \E k \in 1..Len(dev.queueFamilies) : dev.queueFamilies[k].present
    /\ deviceExtensions \subseteq dev.extensions
    /\ Len(dev.formats) > 0 /\ Len(dev.presentationModes) > 0

PickDone == pc # "pickPhysicalDevice"

\* C1: once pickPhysicalDevice has run on a non-empty device list,
\* physicalDevice is the first device in enumeration order that meets all
\* four conditions; when none does, nothing is selected and the fatal
\* "no suitable GPU" error was thrown.
C1_FirstSuitableDevice ==
    (PickDone /\ Len(devices) > 0) =>
        IF \E k \in 1..Len(devices) : MeetsAllFour(devices[k])
        THEN /\ physicalDevice[1] = "physicalDevice"
             /\ MeetsAllFour(devices[physicalDevice[2]])
             /\ \A j \in 1..(physicalDevice[2] - 1) : ~MeetsAllFour(devices[j])
        ELSE /\ physicalDevice = VK_NULL_HANDLE
             /\ pc \in {"catch", "exited"}
             /\ error = <<<<"ERROR! Failed to find a suitable GPU!">>>>

\* C1 witness: two suitable devices were enumerated and the first is selected.
C1_Witness ==
    /\ PickDone
    /\ Len(devices) = 2
    /\ MeetsAllFour(devices[1]) /\ MeetsAllFour(devices[2])
    /\ devices[1] # devices[2]
    /\ physicalDevice = Handle("physicalDevice", 1)

SwapChainRequested == swapChainCreateInfo.minImageCount # NoValue

\* C3 as stated: the requested image count is minImageCount + 1, lowered to
\* maxImageCount only when maxImageCount is nonzero and is exceeded; with
\* maxImageCount = 0 it stays minImageCount + 1.
C3_ImageCountMinPlusOneClamped ==
    SwapChainRequested =>
        LET c == SelectedDevice.capabilities
        IN  swapChainCreateInfo.minImageCount =
                IF c.maxImageCount # 0 /\ c.minImageCount + 1 > c.maxImageCount
                THEN c.maxImageCount
                ELSE c.minImageCount + 1

\* C5: createSwapChain requests concurrent sharing over exactly the two
\* family indices if and only if the graphics and presentation indices of
\* the selected device differ, and exclusive sharing with no indices listed
\* when they are equal.
C5_SharingModeByIndices ==
    SwapChainRequested =>
        LET indices == findQueueFamilies(SelectedDevice.queueFamilies)
            g == indices.graphicsFamily
            p == indices.presentationFamily
        IN  /\ swapChainCreateInfo.imageSharingMode = "CONCURRENT" <=> g # p
            /\ g # p => swapChainCreateInfo.queueFamilyIndices = <<g, p>>
            /\ g = p => /\ swapChainCreateInfo.imageSharingMode = "EXCLUSIVE"
                        /\ swapChainCreateInfo.queueFamilyIndices = <<>>

\* C5 witness: a device with a graphics-only family 0 and a presentation-only
\* family 1 got a concurrent swapchain over <<0, 1>>.
C5_Witness ==
    /\ SwapChainRequested
    /\ pc = "createImageViews"
    /\ SelectedDevice.queueFamilies = <<G_ONLY, P_ONLY>>
    /\ swapChainCreateInfo.imageSharingMode = "CONCURRENT"
    /\ swapChainCreateInfo.queueFamilyIndices = <<0, 1>>

(***************************************************************************)
(* Claims about the run (Spec).                                            *)
(***************************************************************************)
InstanceCallMade ==
    \E k \in 1..Len(apiCalls) : apiCalls[k].op = "create" /\ apiCalls[k].kind = "instance"

PastCreateInstance == pc \notin {"initWindow", "createInstance"}

\* C8 as stated: with validation layers enabled and a requested layer
\* absent, createInstance throws before vkCreateInstance is called.
C8_MissingLayerThrowsBeforeCreate ==
    ( /\ snapshot # "Setup"
      /\ enableValidationLayers
      /\ ~(validationLayers \subseteq availableLayers) ) => ~InstanceCallMade

GlfwExtensionAbsent ==
    \E k \in 1..Len(glfwExtensions) : glfwExtensions[k] \notin availableExtensions

RequiredExtensionAbsent ==
    \/ GlfwExtensionAbsent
    \/ /\ snapshot # "Setup"
       /\ enableValidationLayers
       /\ VK_EXT_DEBUG_UTILS_EXTENSION_NAME \notin availableExtensions

CheckThrew ==
    /\ pc \in {"catch", "exited"}
    /\ error # <<>>
    /\ exitCode # EXIT_SUCCESS
    /\ ~InstanceCallMade
    /\ apiCalls = <<Created("glfw", 0, {}), Created("window", 0, {})>>

\* C9 as stated: when any required instance extension is absent, a GLFW one
\* or the debug-utils one under validation, the extension check throws and
\* initialization does not get past instance setup.
C9_AnyMissingExtensionFailsCheck ==
    (PastCreateInstance /\ RequiredExtensionAbsent) => CheckThrew

\* C9 amended: when a GLFW-required instance extension is absent the
\* extension check throws before vkCreateInstance is called and nothing
\* further is initialized; the debug-utils extension is appended after the
\* check and not looked up: with every GLFW extension present the check
\* passes and vkCreateInstance is called, whether debug-utils is there or not.
C9_MissingGlfwExtensionFailsCheck ==
    PastCreateInstance =>
        IF GlfwExtensionAbsent THEN CheckThrew ELSE InstanceCallMade

\* C9 witness: the second GLFW extension is missing and the run ended in
\* failure at the check.
C9_Witness ==
    /\ snapshot = "Drawing"
    /\ glfwExtensions[1] \in availableExtensions
    /\ glfwExtensions[2] \notin availableExtensions
    /\ pc = "exited"
    /\ exitCode = EXIT_FAILURE
    /\ ~InstanceCallMade

CleanupDone == pc = "return" \/ (pc = "exited" /\ exitCode = EXIT_SUCCESS)

\* Positions of the successful create call and of the destroy call of an object.
CreatePositions ==
    {k \in 1..Len(apiCalls) : apiCalls[k].op = "create" /\ apiCalls[k].ok}

DestroyPosition(k) ==
    CHOOSE d \in 1..Len(apiCalls) :
        /\ apiCalls[d].op = "destroy"
        /\ apiCalls[d].kind = apiCalls[k].kind
        /\ apiCalls[d].idx = apiCalls[k].idx

\* The objects cleanup destroys (the shader modules are gone before it runs).
CleanupObjects == {k \in CreatePositions : apiCalls[k].kind # "shaderModule"}

\* C10 as stated: of any two objects of different kinds, the one created
\* later is destroyed earlier.
C10_ExactReverseOrder ==
    CleanupDone =>
        \A a, b \in CleanupObjects :
            (a < b /\ apiCalls[a].kind # apiCalls[b].kind) =>
                DestroyPosition(b) < DestroyPosition(a)

\* C10 amended: of any two objects of different kinds, the one created
\* later is destroyed earlier, except for the debug messenger and the
\* surface: the debug messenger is created before the surface and is also
\* destroyed before it.  Objects of one kind (the image views, the
\* framebuffers) are destroyed in the order they were created.
C10_ReverseOrderButDebugMessenger ==
    CleanupDone =>
        \A a, b \in CleanupObjects :
            a < b =>
                IF \/ apiCalls[a].kind = apiCalls[b].kind
                   \/ /\ apiCalls[a].kind = "debugMessenger"
                      /\ apiCalls[b].kind = "surface"
                THEN DestroyPosition(a) < DestroyPosition(b)
                ELSE DestroyPosition(b) < DestroyPosition(a)

\* C10 witness: a Drawing run with validation layers and two or more
\* framebuffers has been cleaned up.
C10_Witness ==
    /\ CleanupDone
    /\ snapshot = "Drawing"
    /\ enableValidationLayers
    /\ Len(swapChainFramebuffers) >= 2
    /\ \E k \in CleanupObjects : apiCalls[k].kind = "debugMessenger"

(***************************************************************************)
(* Claims about failure handling (Spec).                                   *)
(***************************************************************************)
\* Positions of the calls that returned failure (a create call that did not
\* return VK_SUCCESS, a shader file that could not be opened).
FailedCalls == {k \in 1..Len(apiCalls) : ~apiCalls[k].ok}

SurfaceCreated ==
    \E k \in 1..Len(apiCalls) :
        apiCalls[k].op = "create" /\ apiCalls[k].kind = "surface" /\ apiCalls[k].ok

\* pickPhysicalDevice has run (it is the step after createSurface).
PickAttempted == SurfaceCreated /\ pc # "pickPhysicalDevice"

NoSuitableDevice == \A k \in 1..Len(devices) : ~MeetsAllFour(devices[k])

\* A failure the program detects has happened.
StepFailed ==
    \/ FailedCalls # {}
    \/ PickAttempted /\ NoSuitableDevice
    \/ PastCreateInstance /\ GlfwExtensionAbsent

Aborted ==
    /\ pc \in {"catch", "exited"}
    /\ Len(error) = 1
    /\ \A k \in FailedCalls : k = Len(apiCalls)
    /\ (PickAttempted /\ NoSuitableDevice) =>
           /\ apiCalls[Len(apiCalls)].kind = "surface"
           /\ graphicsQueue = Uninitialized
    /\ GlfwExtensionAbsent => Len(apiCalls) = 2
    /\ ~windowShouldClose
    /\ pc = "catch" => (stderr = <<>> /\ exitCode = NoValue)
    /\ pc = "exited" => (stderr = error /\ exitCode = EXIT_FAILURE /\ exitCode # 0)

\* C11: when an initialization step fails (a create call returns failure, a
\* shader file cannot be opened, there is no device or no suitable device, a
\* GLFW-required extension is missing) the run is in main's catch or has
\* exited: the failing call is the last call made and was made once, no
\* later step has made a call, the main loop has processed nothing, what()
\* is written to std::cerr exactly once and main returns EXIT_FAILURE.
C11_FailureAbortsTheRun == StepFailed => Aborted

\* C11 witness: the second vkCreateFramebuffer failed in a Drawing run, which
\* ended with one line on std::cerr and EXIT_FAILURE.
C11_Witness ==
    /\ snapshot = "Drawing"
    /\ pc = "exited"
    /\ exitCode = EXIT_FAILURE
    /\ apiCalls[Len(apiCalls)].kind = "framebuffer"
    /\ apiCalls[Len(apiCalls)].idx = 2
    /\ ~apiCalls[Len(apiCalls)].ok
    /\ stderr = <<<<"ERROR! Failed to create framebuffer!">>>>

\* The object created at position k of apiCalls is destroyed by a later call.
DestroyedLater(k) ==
    \E d \in (k + 1)..Len(apiCalls) :
        /\ apiCalls[d].op = "destroy"
        /\ apiCalls[d].kind = apiCalls[k].kind
        /\ apiCalls[d].idx = apiCalls[k].idx

\* C12 as stated: on every execution, also one in which an initialization
\* step fails, every object that was successfully created has been
\* destroyed when the process exits.
C12_CreatedObjectsDestroyedAtExit ==
    pc = "exited" => \A k \in CreatePositions : DestroyedLater(k)

\* The pieces of text what() of the exception that reached main is made of.
WhatPieces == {error[1][k] : k \in 1..Len(error[1])}

\* C13 as stated: the exception that reaches main carries a non-empty text,
\* for every kind of failure and in every snapshot, and when a required
\* extension is missing the text names a missing extension.
C13_EveryFailureCarriesAMessage ==
    error # <<>> =>
        /\ error[1] # <<>>
        /\ GlfwExtensionAbsent =>
               \E k \in 1..Len(glfwExtensions) :
                   /\ glfwExtensions[k] \notin availableExtensions
                   /\ glfwExtensions[k] \in WhatPieces

(***************************************************************************)
(* More claims about device selection (SpecDevice).                        *)
(***************************************************************************)
DeviceCreated ==
    \E k \in 1..Len(apiCalls) :
        apiCalls[k].op = "create" /\ apiCalls[k].kind = "device" /\ apiCalls[k].ok

\* C14 as stated: after createLogicalDevice has succeeded, graphicsQueue is
\* queue 0 of the graphics family and presentationQueue is queue 0 of the
\* presentation family of the selected device.
C14_BothQueueHandlesRetained ==
    DeviceCreated =>
        LET indices == findQueueFamilies(SelectedDevice.queueFamilies)
        IN  /\ graphicsQueue = Handle("queue", indices.graphicsFamily)
            /\ presentationQueue = Handle("queue", indices.presentationFamily)

(***************************************************************************)
(* Claims about isDeviceSuitable (SpecUnit).                               *)
(***************************************************************************)
HasGraphicsFamily(dev) ==
    \E k \in 1..Len(dev.queueFamilies) : dev.queueFamilies[k].graphics
HasPresentationFamily(dev) ==
    \E k \in 1..Len(dev.queueFamilies) : dev.queueFamilies[k].present

\* C15: isDeviceSuitable returns false for every device without a
\* graphics-capable queue family and for every device without a queue family
\* that presents to the surface, whatever its extensions, formats and
\* present modes are.
C15_NoQueueFamilyNotSuitable ==
    Returned("isDeviceSuitable") =>
        ((~HasGraphicsFamily(call.arg) \/ ~HasPresentationFamily(call.arg)) =>
            ret[1] = FALSE)

\* C15 witness: a device with graphics families only, the required
\* extension, formats and present modes was found unsuitable.
C15_Witness ==
    /\ Returned("isDeviceSuitable")
    /\ call.arg.queueFamilies = <<G_ONLY, G_ONLY>>
    /\ deviceExtensions \subseteq call.arg.extensions
    /\ call.arg.formats # <<>> /\ call.arg.presentationModes # <<>>
    /\ ret[1] = FALSE

\* C16: isDeviceSuitable returns false for every device that lacks a
\* required device extension, also when its queue-family indices are
\* complete.
C16_MissingExtensionNotSuitable ==
    Returned("isDeviceSuitable") =>
        (~(deviceExtensions \subseteq call.arg.extensions) => ret[1] = FALSE)

\* C16 witness: a device with complete indices, formats and present modes
\* that has another extension but not the required one was found unsuitable.
C16_Witness ==
    /\ Returned("isDeviceSuitable")
    /\ isComplete(findQueueFamilies(call.arg.queueFamilies))
    /\ call.arg.extensions = {"VK_KHR_maintenance1"}
    /\ call.arg.formats # <<>> /\ call.arg.presentationModes # <<>>
    /\ ret[1] = FALSE

\* C17: isDeviceSuitable returns false for every device whose format list
\* or present-mode list for the surface is empty, also when its indices are
\* complete and every required extension is present.
C17_EmptySwapChainSupportNotSuitable ==
    Returned("isDeviceSuitable") =>
        ((call.arg.formats = <<>> \/ call.arg.presentationModes = <<>>) =>
            ret[1] = FALSE)

\* C17 witness: a device with complete indices, the required extension and
\* formats but no present mode was found unsuitable.
C17_Witness ==
    /\ Returned("isDeviceSuitable")
    /\ isComplete(findQueueFamilies(call.arg.queueFamilies))
    /\ deviceExtensions \subseteq call.arg.extensions
    /\ call.arg.formats # <<>>
    /\ call.arg.presentationModes = <<>>
    /\ ret[1] = FALSE

(***************************************************************************)
(* Scenarios of device selection and swapchain creation (SpecDevice).      *)
(***************************************************************************)
\* C18: when the enumeration reports no device, pickPhysicalDevice throws
\* the "no GPU" error, the one raised before the loop that calls
\* isDeviceSuitable (the loop's own error is the "no suitable GPU" one),
\* nothing is selected, and no later step runs: no call is made after
\* createSurface's, no queue is fetched, no swapchain is requested.
C18_NoDeviceFailsBeforeSuitability ==
    (PickDone /\ Len(devices) = 0) =>
        /\ pc \in {"catch", "exited"}
        /\ error = <<<<"ERROR! Failed to find GPUs with Vulkan support!">>>>
        /\ physicalDevice = VK_NULL_HANDLE
        /\ apiCalls = CallsBeforePick
        /\ graphicsQueue = Uninitialized
        /\ ~SwapChainRequested

\* C18 witness: a run on the empty device list has ended in failure.
C18_Witness ==
    /\ devices = <<>>
    /\ pc = "exited"
    /\ exitCode = EXIT_FAILURE
    /\ stderr = <<<<"ERROR! Failed to find GPUs with Vulkan support!">>>>

\* The 0-based indices of the families of q that have the capability.
FamiliesWith(q, capability) == {i \in 0..(Len(q) - 1) : q[i + 1][capability]}

TheOnly(S) == CHOOSE x \in S : TRUE

\* C19: for a selected device whose only graphics family is g and whose only
\* presentation family is another index p, findQueueFamilies returns (g, p),
\* (0, 1) for a graphics-only family 0 and a presentation-only family 1, and
\* the swapchain createSwapChain asks for has concurrent sharing over g and p.
C19_SeparateFamiliesShareConcurrently ==
    SwapChainRequested =>
        LET q == SelectedDevice.queueFamilies
            G == FamiliesWith(q, "graphics")
            P == FamiliesWith(q, "present")
        IN  (Cardinality(G) = 1 /\ Cardinality(P) = 1 /\ G # P) =>
                /\ findQueueFamilies(q) =
                       [graphicsFamily |-> TheOnly(G), presentationFamily |-> TheOnly(P)]
                /\ q = <<G_ONLY, P_ONLY>> =>
                       findQueueFamilies(q) =
                           [graphicsFamily |-> 0, presentationFamily |-> 1]
                /\ swapChainCreateInfo.imageSharingMode = "CONCURRENT"
                /\ swapChainCreateInfo.queueFamilyIndices = <<TheOnly(G), TheOnly(P)>>

\* C19 witness: a device with neither capability on family 0, presentation
\* on family 1 only and graphics on family 2 only got a swapchain shared
\* concurrently by 2 and 1.
C19_Witness ==
    /\ pc = "createImageViews"
    /\ SelectedDevice.queueFamilies = <<NEITHER, P_ONLY, G_ONLY>>
    /\ swapChainCreateInfo.imageSharingMode = "CONCURRENT"
    /\ swapChainCreateInfo.queueFamilyIndices = <<2, 1>>
    /\ Len(swapChainImages) > 0

\* C20: for a selected device whose family 0 has both capabilities,
\* findQueueFamilies returns (0, 0) whatever the later families support, and
\* the swapchain createSwapChain asks for has exclusive sharing.
C20_SharedFamilyZeroIsExclusive ==
    SwapChainRequested =>
        LET q == SelectedDevice.queueFamilies
        IN  (q[1].graphics /\ q[1].present) =>
                /\ findQueueFamilies(q) =
                       [graphicsFamily |-> 0, presentationFamily |-> 0]
                /\ swapChainCreateInfo.imageSharingMode = "EXCLUSIVE"
                /\ swapChainCreateInfo.queueFamilyIndices = <<>>

\* C20 witness: a device whose families 0 and 1 both have both capabilities
\* got a swapchain with exclusive sharing.
C20_Witness ==
    /\ pc = "createImageViews"
    /\ SelectedDevice.queueFamilies = <<BOTH, BOTH>>
    /\ swapChainCreateInfo.imageSharingMode = "EXCLUSIVE"
    /\ Len(swapChainImages) > 0

\* C21: whenever the selected device reports a nonzero maxImageCount, the
\* image count createSwapChain requests does not exceed it; with
\* minImageCount = 2 and maxImageCount = 2 it requests 2.
C21_ImageCountWithinMaximum ==
    SwapChainRequested =>
        LET c == SelectedDevice.capabilities
        IN  c.maxImageCount # 0 =>
                /\ swapChainCreateInfo.minImageCount <= c.maxImageCount
                /\ (c.minImageCount = 2 /\ c.maxImageCount = 2) =>
                       swapChainCreateInfo.minImageCount = 2

\* C21 witness: a device with minImageCount = 2 and maxImageCount = 2 got a
\* swapchain request for 2 images.
C21_Witness ==
    /\ SwapChainRequested
    /\ SelectedDevice.capabilities.minImageCount = 2
    /\ SelectedDevice.capabilities.maxImageCount = 2
    /\ swapChainCreateInfo.minImageCount = 2

(***************************************************************************)
(* Claims about the objects of a run (Spec).                               *)
(***************************************************************************)
\* initVulkan has returned.
InitSucceeded ==
    \/ pc \in {"mainLoop", "cleanup", "return"}
    \/ pc = "exited" /\ exitCode = EXIT_SUCCESS

\* The uses of the successful create call of the object <<kind, idx>>; {}
\* when there is no such call.
UsesOf(kind, idx) ==
    UNION {apiCalls[k].uses : k \in {j \in CreatePositions :
                                       /\ apiCalls[j].kind = kind
                                       /\ apiCalls[j].idx = idx}}

\* C22: after a successful initialization there are as many image views as
\* swapchain images the API reported and image view i views image i; in the
\* Drawing snapshot there are as many framebuffers as image views, and
\* framebuffer i attaches image view i and references the render pass.
C22_FramebuffersViewsImagesParallel ==
    (InitSucceeded /\ snapshot # "Setup") =>
        /\ Len(swapChainImages) > 0
        /\ Len(swapChainImageViews) = Len(swapChainImages)
        /\ \A i \in 1..Len(swapChainImageViews) :
               /\ swapChainImageViews[i] = Handle("imageView", i)
               /\ swapChainImages[i] \in UsesOf("imageView", i)
               /\ \A j \in 1..Len(swapChainImages) :
                      j # i => swapChainImages[j] \notin UsesOf("imageView", i)
        /\ snapshot = "Drawing" =>
               /\ Len(swapChainFramebuffers) = Len(swapChainImageViews)
               /\ \A i \in 1..Len(swapChainFramebuffers) :
                      /\ swapChainFramebuffers[i] = Handle("framebuffer", i)
                      /\ swapChainImageViews[i] \in UsesOf("framebuffer", i)
                      /\ Handle("renderPass", 0) \in UsesOf("framebuffer", i)
                      /\ \A j \in 1..Len(swapChainImageViews) :
                             j # i =>
                                 swapChainImageViews[j] \notin UsesOf("framebuffer", i)

\* C22 witness: a Drawing run in which the API reported one image more than
\* was requested has four images, four views and four framebuffers.
C22_Witness ==
    /\ snapshot = "Drawing"
    /\ pc = "mainLoop"
    /\ swapChainCreateInfo.minImageCount = 3
    /\ Len(swapChainImages) = 4
    /\ Len(swapChainFramebuffers) = 4

DestroyPositions(kind) ==
    {d \in 1..Len(apiCalls) : apiCalls[d].op = "destroy" /\ apiCalls[d].kind = kind}

\* Every object of kind owned is destroyed before every object of kind owner.
AllBefore(owned, owner) ==
    \A a \in DestroyPositions(owned), b \in DestroyPositions(owner) : a < b

\* The kinds of the ownership hierarchy below the instance.
OwnedKinds ==
    {"debugMessenger", "surface", "device", "swapChain", "imageView", "renderPass",
     "shaderModule", "pipelineLayout", "graphicsPipeline", "framebuffer"}

\* The handle a destroy call receives as owner was destroyed by an earlier call.
DestroyedOwnerUsed ==
    \E e, d \in 1..Len(apiCalls) :
        /\ e < d
        /\ apiCalls[e].op = "destroy"
        /\ apiCalls[d].op = "destroy"
        /\ Handle(apiCalls[e].kind, apiCalls[e].idx) \in apiCalls[d].uses

\* C23: when cleanup is over, the framebuffers were destroyed before the
\* image views and the render pass, the image views before the swapchain,
\* swapchain, render pass, pipeline and pipeline layout before the logical
\* device, and device, surface and debug messenger before the instance; the
\* instance was destroyed after every object of the hierarchy, and no
\* destroy call was given an owner handle that had been destroyed already.
C23_OwnedDestroyedBeforeOwner ==
    CleanupDone =>
        /\ AllBefore("framebuffer", "imageView")
        /\ AllBefore("framebuffer", "renderPass")
        /\ AllBefore("imageView", "swapChain")
        /\ \A owned \in {"swapChain", "renderPass", "graphicsPipeline", "pipelineLayout"} :
               AllBefore(owned, "device")
        /\ \A owned \in {"device", "surface", "debugMessenger"} :
               AllBefore(owned, "instance")
        /\ \A owned \in OwnedKinds : AllBefore(owned, "instance")
        /\ Cardinality(DestroyPositions("instance")) = 1
        /\ ~DestroyedOwnerUsed

\* C23 witness: cleanup of a Drawing run with validation layers is over, and
\* the framebuffers, image views, swapchain, device and instance were
\* destroyed.
C23_Witness ==
    /\ CleanupDone
    /\ snapshot = "Drawing"
    /\ enableValidationLayers
    /\ \A kind \in OwnedKinds \cup {"instance"} : DestroyPositions(kind) # {}
    /\ Cardinality(DestroyPositions("framebuffer")) >= 3

\* The steps of initWindow and initVulkan, in the order C24 gives them.
InitOrder ==
    <<"initWindow", "createInstance", "setupDebugMessenger", "createSurface",
      "pickPhysicalDevice", "createLogicalDevice", "createSwapChain",
      "createImageViews", "createRenderPass", "createGraphicsPipeline",
      "createFramebuffers">>

\* The kinds of object (or file) a step creates (or opens).
StepKinds(step) ==
    CASE step = "initWindow" -> {"glfw", "window"}
      [] step = "createInstance" -> {"instance"}
      [] step = "setupDebugMessenger" -> {"debugMessenger"}
      [] step = "createSurface" -> {"surface"}
      [] step = "pickPhysicalDevice" -> {}
      [] step = "createLogicalDevice" -> {"device"}
      [] step = "createSwapChain" -> {"swapChain"}
      [] step = "createImageViews" -> {"imageView"}
      [] step = "createRenderPass" -> {"renderPass"}
      [] step = "createGraphicsPipeline" ->
           {"shaderFile", "shaderModule", "pipelineLayout", "graphicsPipeline"}
      [] step = "createFramebuffers" -> {"framebuffer"}

\* The position in InitOrder of the step that makes calls of this kind.
RankOfKind(kind) == CHOOSE r \in 1..Len(InitOrder) : kind \in StepKinds(InitOrder[r])

\* Positions of the create and open calls, successful or not.
MakePositions == {k \in 1..Len(apiCalls) : apiCalls[k].op \in {"create", "open"}}

CreatedOk(kind, idx) ==
    \E k \in CreatePositions : apiCalls[k].kind = kind /\ apiCalls[k].idx = idx

\* The step is about to run, or has made a call.
StepStarted(step) ==
    \/ pc = step
    \/ \E k \in MakePositions : apiCalls[k].kind \in StepKinds(step)

\* The step has succeeded: what it is there to create or select exists.
StepSucceeded(step) ==
    CASE step = "initWindow" -> CreatedOk("glfw", 0) /\ CreatedOk("window", 0)
      [] step = "createInstance" -> CreatedOk("instance", 0)
      [] step = "setupDebugMessenger" ->
           enableValidationLayers <=> CreatedOk("debugMessenger", 0)
      [] step = "createSurface" -> CreatedOk("surface", 0)
      [] step = "pickPhysicalDevice" -> physicalDevice # VK_NULL_HANDLE
      [] step = "createLogicalDevice" -> CreatedOk("device", 0)
      [] step = "createSwapChain" -> CreatedOk("swapChain", 0) /\ swapChainImages # <<>>
      [] step = "createImageViews" ->
           /\ Len(swapChainImageViews) = Len(swapChainImages)
           /\ \A i \in 1..Len(swapChainImages) : CreatedOk("imageView", i)
      [] step = "createRenderPass" -> CreatedOk("renderPass", 0)
      [] step = "createGraphicsPipeline" -> CreatedOk("graphicsPipeline", 0)
      [] step = "createFramebuffers" ->
           \A i \in 1..Len(swapChainImageViews) : CreatedOk("framebuffer", i)

\* The handle was created by a successful call before position k, or is the
\* selected physical device, or an image of the swapchain.
CreatedBefore(h, k) ==
    \/ \E j \in CreatePositions :
          j < k /\ Handle(apiCalls[j].kind, apiCalls[j].idx) = h
    \/ h[1] = "physicalDevice" /\ h = physicalDevice
    \/ \E i \in 1..Len(swapChainImages) : h = swapChainImages[i]

\* C24: no create call is made twice; the calls appear in the order of the
\* steps instance, debug messenger, surface, (device selection), logical
\* device, swapchain, image views, render pass, graphics pipeline,
\* framebuffers; a step is started only when every earlier step has
\* succeeded; and every handle a create call is given was created before it.
C24_StepsOnceInOrder ==
    /\ \A j, k \in MakePositions :
           j < k =>
               /\ RankOfKind(apiCalls[j].kind) <= RankOfKind(apiCalls[k].kind)
               /\ <<apiCalls[j].kind, apiCalls[j].idx>> #
                      <<apiCalls[k].kind, apiCalls[k].idx>>
    /\ \A r, t \in 1..Len(InitOrder) :
           (r < t /\ StepStarted(InitOrder[t])) => StepSucceeded(InitOrder[r])
    /\ \A k \in MakePositions : \A h \in apiCalls[k].uses : CreatedBefore(h, k)

\* C24 witness: createFramebuffers is about to start in a Drawing run with
\* validation layers, after nine steps that succeeded.
C24_Witness ==
    /\ snapshot = "Drawing"
    /\ enableValidationLayers
    /\ pc = "createFramebuffers"
    /\ CreatedOk("graphicsPipeline", 0)
    /\ CreatedOk("debugMessenger", 0)

\* createGraphicsPipeline has run and is over (normally or by a throw).
PipelineStepOver ==
    /\ pc # "createGraphicsPipeline"
    /\ \E k \in MakePositions : apiCalls[k].kind = "shaderFile"

\* C25 as stated: on every execution of createGraphicsPipeline, once the
\* step is over every shader module it created has been destroyed, and was
\* destroyed after the graphics-pipeline creation call.
C25_ShaderModulesGoneAfterStep ==
    PipelineStepOver =>
        \A k \in CreatePositions :
            apiCalls[k].kind = "shaderModule" =>
                \E c, d \in 1..Len(apiCalls) :
                    /\ apiCalls[c].op = "create"
                    /\ apiCalls[c].kind = "graphicsPipeline"
                    /\ c < d
                    /\ apiCalls[d].op = "destroy"
                    /\ apiCalls[d].kind = "shaderModule"
                    /\ apiCalls[d].idx = apiCalls[k].idx

\* What mainLoop is not allowed to touch: the members, the calls made and
\* the outcome of the run.
LoopLeavesAlone == UNCHANGED <<members, apiCalls, error, exitCode, stderr, world>>

\* C26: mainLoop only polls events: a step taken inside it changes no
\* application state and makes no create, destroy or submit call; it stays in
\* the loop while the close flag is clear and leaves it for cleanup, and only
\* for cleanup, when the flag is observed set; cleanup never starts before
\* the flag was observed; and once the flag is set the loop ends and cleanup
\* runs.
C26_MainLoopOnlyPolls ==
    /\ [][pc = "mainLoop" =>
            /\ LoopLeavesAlone
            /\ IF windowShouldClose THEN pc' = "cleanup" /\ windowShouldClose'
               ELSE pc' = "mainLoop"]_vars
    /\ []((pc = "cleanup" \/ CleanupDone) => windowShouldClose)
    /\ ((pc = "mainLoop" /\ windowShouldClose) ~> CleanupDone)

\* The loop polled, the close request arrived, the loop ended and cleanup ran.
C26_Witness ==
    /\ pc = "return"
    /\ windowShouldClose
    /\ \E d \in 1..Len(apiCalls) : apiCalls[d].op = "destroy" /\ apiCalls[d].kind = "glfw"

\* C27: in every run that reaches createLogicalDevice or createSwapChain
\* the selected device is still suitable where it is used:
\* findQueueFamilies(physicalDevice) is complete, so value() is never read
\* from an empty optional (no bad_optional_access is ever thrown), and the
\* queried format list is not empty, so chooseSwapSurfaceFormat never reads
\* element 0 of an empty list.
C27_SelectedDeviceStillSuitable ==
    /\ pc \in {"createLogicalDevice", "createSwapChain"} =>
          /\ physicalDevice # VK_NULL_HANDLE
          /\ isComplete(findQueueFamilies(SelectedDevice.queueFamilies))
          /\ querySwapChainSupport(SelectedDevice).formats # <<>>
    /\ error # <<BadOptionalAccess>>

\* The second enumerated device was selected after an unsuitable first one,
\* and both steps that use it have run.
C27_Witness ==
    /\ Len(devices) = 2
    /\ physicalDevice = Handle("physicalDevice", 2)
    /\ ~isDeviceSuitable(devices[1])
    /\ \E k \in CreatePositions : apiCalls[k].kind = "swapChain"

\* The highest 0-based index up to k whose family has the capability.
HighestUpTo(q, k, capability) ==
    LET S == {i \in 0..k : q[i + 1][capability]}
    IN  IF S = {} THEN NoValue ELSE SetMax(S)

\* C28: findQueueFamilies stops at the lowest index k such that families
\* 0..k together provide both capabilities and inspects no family after k
\* (the families after k have no influence on the result); for each
\* capability it returns the highest index not above k that has it; when no
\* such k exists it scans every family and returns an incomplete result.
C28_StopsAtLowestCompleteIndex ==
    Returned("findQueueFamilies") =>
        LET q == call.arg
            Ks == {k \in 0..(Len(q) - 1) : BothSeenBy(q, k)}
            loop == QueueFamilyLoop(q, 0, EmptyIndices)
        IN  IF Ks # {}
            THEN LET k == SetMin(Ks)
                 IN  /\ loop.i = k
                     /\ ret[1] = findQueueFamilies(SubSeq(q, 1, k + 1))
                     /\ ret[1].graphicsFamily = HighestUpTo(q, k, "graphics")
                     /\ ret[1].presentationFamily = HighestUpTo(q, k, "present")
                     /\ ret[1].graphicsFamily # NoValue
                     /\ ret[1].presentationFamily # NoValue
            ELSE /\ loop.i = Len(q)
                 /\ ret[1].graphicsFamily = HighestUpTo(q, Len(q) - 1, "graphics")
                 /\ ret[1].presentationFamily = HighestUpTo(q, Len(q) - 1, "present")
                 /\ ret[1].graphicsFamily = NoValue \/ ret[1].presentationFamily = NoValue

\* [graphics-only, both, both]: the scan stops at family 1, where graphics
\* was overwritten (1, not 0), and family 2 is never looked at.
C28_Witness ==
    /\ Returned("findQueueFamilies")
    /\ call.arg = <<G_ONLY, BOTH, BOTH>>
    /\ ret[1] = [graphicsFamily |-> 1, presentationFamily |-> 1]

\* Three graphics-only families: every family is scanned, the result is
\* incomplete.
C28_WitnessIncomplete ==
    /\ Returned("findQueueFamilies")
    /\ call.arg = <<G_ONLY, G_ONLY, G_ONLY>>
    /\ ret[1] = [graphicsFamily |-> 2, presentationFamily |-> NoValue]

\* The destroy calls made for the object created at position k.
DestroysOf(k) ==
    {d \in 1..Len(apiCalls) : /\ apiCalls[d].op = "destroy"
                              /\ apiCalls[d].kind = apiCalls[k].kind
                              /\ apiCalls[d].idx = apiCalls[k].idx}

\* The calls at positions above CleanupStart are the ones cleanup made
\* (meaningful once cleanup is over).
CleanupStart ==
    Len(apiCalls) - Len(cleanupCalls(snapshot, enableValidationLayers,
                                     swapChainImageViews, swapChainFramebuffers))

\* The debug messenger is created exactly when the validation layers are
\* enabled, and destroyed under the same condition.
MessengerIffValidation ==
    /\ (\E k \in CreatePositions : apiCalls[k].kind = "debugMessenger")
           <=> enableValidationLayers
    /\ DestroyPositions("debugMessenger") # {} <=> enableValidationLayers

\* Every destroy call destroys an object an earlier call created.
OnlyCreatedDestroyed ==
    \A d \in 1..Len(apiCalls) :
        apiCalls[d].op = "destroy" =>
            \E k \in CreatePositions :
                k < d /\ apiCalls[k].kind = apiCalls[d].kind
                      /\ apiCalls[k].idx = apiCalls[d].idx

\* No call is handed a handle that an earlier call destroyed.
NoUseAfterDestroy ==
    \A e, j \in 1..Len(apiCalls) :
        (e < j /\ apiCalls[e].op = "destroy") =>
            /\ Handle(apiCalls[e].kind, apiCalls[e].idx) \notin apiCalls[j].uses
            /\ ~(/\ apiCalls[j].kind = apiCalls[e].kind
                 /\ apiCalls[j].idx = apiCalls[e].idx)

\* C29 as stated: on a run whose initialization succeeds, every object
\* created during initialization is destroyed exactly once, by cleanup; the
\* debug messenger exists exactly when validation layers are enabled;
\* nothing is destroyed that was not created; no handle is used after it was
\* destroyed.
C29_EveryObjectDestroyedOnceInCleanup ==
    CleanupDone =>
        /\ \A k \in CreatePositions :
               /\ Cardinality(DestroysOf(k)) = 1
               /\ \A d \in DestroysOf(k) : d > CleanupStart
        /\ MessengerIffValidation
        /\ OnlyCreatedDestroyed
        /\ NoUseAfterDestroy

\* C29 amended: on a run whose initialization succeeds, every object created
\* during initialization is destroyed exactly once: the two shader modules
\* by createGraphicsPipeline itself, after the pipeline was created and
\* before initialization ends, every other object by cleanup; the debug
\* messenger is created exactly when validation layers are enabled and
\* destroyed under the same condition; nothing is destroyed that was not
\* created; no handle is used after it was destroyed.
C29_EveryObjectDestroyedOnce ==
    CleanupDone =>
        /\ \A k \in CreatePositions :
               /\ Cardinality(DestroysOf(k)) = 1
               /\ \A d \in DestroysOf(k) :
                      /\ k < d
                      /\ IF apiCalls[k].kind = "shaderModule"
                         THEN /\ d <= CleanupStart
                              /\ \E c \in CreatePositions :
                                     c < d /\ apiCalls[c].kind = "graphicsPipeline"
                         ELSE d > CleanupStart
        /\ MessengerIffValidation
        /\ OnlyCreatedDestroyed
        /\ NoUseAfterDestroy

\* A Drawing run without validation layers has ended: no debug messenger was
\* created or destroyed, both shader modules were.
C29_Witness ==
    /\ CleanupDone
    /\ snapshot = "Drawing"
    /\ ~enableValidationLayers
    /\ Cardinality(DestroyPositions("shaderModule")) = 2
    /\ DestroyPositions("debugMessenger") = {}
    /\ Cardinality(DestroyPositions("framebuffer")) >= 2

C30_WitnessClamped ==
    /\ Returned("chooseSwapExtent")
    /\ call.arg.capabilities.currentExtent = Extent(UINT32_MAX, 600)
    /\ ret[1].width # UINT32_MAX
    /\ ret[1].height # 600

====
